---- MODULE Spec2Model ----
(***************************************************************************)
(* Texturing (mesh::Texturing) of AliceVision: loading a mesh with its     *)
(* per-point visibilities, Basic UV generation (generateUVs), and the      *)
(* baking of one texture per atlas (generateTexture).                      *)
(*                                                                         *)
(* Indices are 0-based as in the code; a C++ vector is a sequence and      *)
(* At(s, i) reads element i.  A UV coordinate u in [0,1] is stored as the  *)
(* integer pair <<x, y>> with u = <<x, y>> / TextureSide.                  *)
(***************************************************************************)
EXTENDS Integers, Sequences, FiniteSets, Bags, TLC

\* ------------------------------------------------------------------ bounds
NumCams == 2
TextureSide == 4
ImageSide == 2
MaxUVs == 8
MaxPadding == 2
MaxHits == 2
MaxViewId == 2

Cams == 0 .. (NumCams - 1)

At(s, i) == s[i + 1]

Range(s) == { s[i] : i \in DOMAIN s }

\* ------------------------------------------------------------------ state
VARIABLES
    me,                 \* Mesh* me: [isNull, pts, tris]
    pointsVisibilities, \* PointsVisibility*: [isNull, v]
    uvCoords,           \* std::vector<Point2d>
    trisUvIds,          \* std::vector<Voxel>
    atlases,            \* _atlases: vector of vectors of triangle ids
    mua,                \* the UVAtlas built by the last generateUVs
    vertexCache,        \* the vertexCache of the last generateUVs
    err,                \* the error the last operation threw
    op,                 \* the operation that ran last
    texParams,          \* texParams: [padding, fillHoles, downscale]
    pc,                 \* where generateTextures / generateTexture stands
    loop,               \* TRUE when generateTexture runs inside generateTextures
    atlasID,            \* the atlas generateTexture works on
    colorIDs,           \* std::vector<int> colorIDs
    camTriangles,       \* std::vector<std::vector<unsigned int>> camTriangles
    perPixelColors,     \* std::vector<AccuColor> perPixelColors
    camId,              \* the camera of the rasterization loop
    triPos,             \* the position in camTriangles[camId]
    g,                  \* the padding round
    colorBuffer,        \* std::vector<Color> colorBuffer
    alphaBuffer,        \* std::vector<float> alphaBuffer
    files,              \* the texture files written, by atlas id
    samples,            \* for each texel, the bag of the colours added to it
    sfmdata,            \* SfM_Data: [views, structure, control_points]
    oldIdToNew,         \* std::map<std::size_t, std::size_t> oldIdToNew
    threads             \* the locals of the calls of generateTexture that run in parallel

meshVars == << me, pointsVisibilities, uvCoords, trisUvIds, atlases, mua, vertexCache >>

texVars == << pc, loop, atlasID, colorIDs, camTriangles, perPixelColors, camId, triPos, g,
              colorBuffer, alphaBuffer, files, samples >>

sfmVars == << sfmdata, oldIdToNew >>

vars == << me, pointsVisibilities, uvCoords, trisUvIds, atlases, mua, vertexCache, err, op,
           texParams, pc, loop, atlasID, colorIDs, camTriangles, perPixelColors, camId,
           triPos, g, colorBuffer, alphaBuffer, files, samples, sfmdata, oldIdToNew,
           threads >>

NoError == "none"

\* a null Mesh pointer, and a mesh with its points (3D positions) and triangles
NullMesh == [isNull |-> TRUE, pts |-> <<>>, tris |-> <<>>]

NewMesh(pts, tris) == [isNull |-> FALSE, pts |-> pts, tris |-> tris]

\* one entry of the visibility table: a null StaticVector<int>* or a vector of camera ids
NullVec == [isNull |-> TRUE, cams |-> <<>>]

Vec(s) == [isNull |-> FALSE, cams |-> s]

NullVis == [isNull |-> TRUE, v |-> <<>>]

NewVis(v) == [isNull |-> FALSE, v |-> v]

\* ------------------------------------------------------------------ inputs
\* the binary mesh files: points are 3D positions (numbered), triangles index them
MeshFiles ==
    { [pts |-> <<0, 1, 2>>, tris |-> << <<0, 1, 2>> >>],
      [pts |-> <<0, 1, 2, 3>>, tris |-> << <<0, 1, 2>>, <<2, 1, 3>> >>],
      [pts |-> <<3, 2, 1, 0>>, tris |-> << <<3, 1, 2>> >>] }

\* the entries a visibility file may hold for one point
VisEntries == { NullVec, Vec(<<0>>), Vec(<<0, NumCams - 1>>) }

\* the visibility files: one entry per point, or a table of another size
VisFiles(n) == [1 .. n -> VisEntries]

BadVisFiles(n) == UNION { [1 .. k -> {NullVec}] : k \in (0 .. (n + 1)) \ {n} }

\* mp.getPixelFor3DPoint: the pixel of 3D position p in camera cam
getPixelFor3DPoint(p, cam) == << (p + cam) % 3, (p + 2 * cam) % 3 >>

\* mp.isPixelInImage
isPixelInImage(pix, cam) ==
    /\ pix[1] >= 0 /\ pix[1] < ImageSide
    /\ pix[2] >= 0 /\ pix[2] < ImageSide

\* ------------------------------------------------------------------ UVAtlas
\* the ascending sequence of a finite set of integers
RECURSIVE SortedSeq(_)
SortedSeq(S) ==
    IF S = {} THEN <<>>
    ELSE LET m == CHOOSE x \in S : \A y \in S : x <= y
         IN  <<m>> \o SortedSeq(S \ {m})

\* the subsequence of s, in order, of the elements that satisfy keep
RECURSIVE SelectIdx(_, _, _)
SelectIdx(s, keep, i) ==
    IF i > Len(s) THEN <<>>
    ELSE (IF keep[i] THEN <<s[i]>> ELSE <<>>) \o SelectIdx(s, keep, i + 1)

\* the placements the atlas builder gives a chart: its source rectangle starts at the
\* image origin and is placed so that it lies inside the texture
ChartOffsets == { <<0, 0>>, <<TextureSide - ImageSide, TextureSide - ImageSide>> }

Chart(tids, cam, lu) ==
    [triangleIDs |-> tids, refCameraID |-> cam, sourceLU |-> <<0, 0>>, targetLU |-> lu]

\* UVAtlas(mesh, ...).atlases(): every triangle in exactly one chart of exactly one
\* atlas; chartOf numbers the chart of each triangle, atlasOf the atlas of each chart
AtlasChoices(nTris) ==
    IF nTris = 0 THEN { <<>> }
    ELSE
    { LET nCharts == 1 + CHOOSE k \in 0 .. (nTris - 1) : \A t \in 0 .. (nTris - 1) : chartOf[t] <= k /\ (\E u \in 0 .. (nTris - 1) : chartOf[u] = k)
          charts == [c \in 1 .. nCharts |->
                        Chart(SortedSeq({ t \in 0 .. (nTris - 1) : chartOf[t] = c - 1 }),
                              cam[c - 1], lu[c - 1])]
          nAtlases == atlasOf[nCharts - 1] + 1
      IN  [a \in 1 .. nAtlases |->
              SelectIdx(charts, [c \in 1 .. nCharts |-> atlasOf[c - 1] = a - 1], 1)]
      : chartOf \in { f \in [0 .. (nTris - 1) -> 0 .. (nTris - 1)] :
                        \A c \in 0 .. (nTris - 1) :
                            (\E t \in 0 .. (nTris - 1) : f[t] = c) =>
                                \A d \in 0 .. c : \E t \in 0 .. (nTris - 1) : f[t] = d },
        atlasOf \in { h \in [0 .. (nTris - 1) -> 0 .. (nTris - 1)] :
                        /\ h[0] = 0
                        /\ \A c \in 1 .. (nTris - 1) : h[c] \in {h[c - 1], h[c - 1] + 1} },
        cam \in [0 .. (nTris - 1) -> {-1} \cup Cams],
        lu \in [0 .. (nTris - 1) -> ChartOffsets] }

\* ------------------------------------------------------------------ generateUVs
\* the UV of 3D position p in a chart (lines 170-183); <<0, 0>> is Point2d()
uvPixNoImageTest(chart, p) ==
    IF chart.refCameraID # -1
    THEN LET pix == getPixelFor3DPoint(p, chart.refCameraID)
             x == pix[1] + (chart.targetLU[1] - chart.sourceLU[1])
             y == TextureSide - (pix[2] + (chart.targetLU[2] - chart.sourceLU[2]))
         IN  IF x >= TextureSide * TextureSide \/ y >= TextureSide * TextureSide
             THEN <<0, 0>>
             ELSE <<x, y>>
    ELSE <<0, 0>>

uvPix(chart, p) ==
    IF chart.refCameraID # -1 /\ isPixelInImage(getPixelFor3DPoint(p, chart.refCameraID), chart.refCameraID)
    THEN LET pix == getPixelFor3DPoint(p, chart.refCameraID)
             x == pix[1] + (chart.targetLU[1] - chart.sourceLU[1])
             y == TextureSide - (pix[2] + (chart.targetLU[2] - chart.sourceLU[2]))
         IN  IF x >= TextureSide * TextureSide \/ y >= TextureSide * TextureSide
             THEN <<0, 0>>
             ELSE <<x, y>>
    ELSE <<0, 0>>

\* the copy of a visibility entry made for a new point (lines 193-197)
CopyVisibilityDropped(pRef) == Vec(<<>>)

CopyVisibility(pRef) == IF pRef.isNull THEN Vec(<<>>) ELSE Vec(pRef.cams)

\* one corner of a triangle (lines 167-216): st is the state of the loops
\* (new mesh m, updatedPointsCams, uvCoords, the two caches, the triangle t being built)
Corner(st, chart, pointId, m0, pv0) ==
    LET p == At(m0.pts, pointId)
        found == pointId \in DOMAIN st.vertexCache
        newPointIdx == IF found THEN st.vertexCache[pointId] ELSE Len(st.pts)
        uvFound == newPointIdx \in DOMAIN st.uvCache
        uvIdx == IF uvFound THEN st.uvCache[newPointIdx] ELSE Len(st.uv)
    IN  [st EXCEPT
            !.pts = IF found THEN @ ELSE Append(@, p),
            !.vis = IF found THEN @ ELSE Append(@, CopyVisibility(At(pv0.v, pointId))),
            !.vertexCache = IF found THEN @ ELSE (pointId :> newPointIdx) @@ @,
            !.uv = IF uvFound THEN @ ELSE Append(@, uvPix(chart, p)),
            !.uvCache = IF uvFound THEN @ ELSE (newPointIdx :> uvIdx) @@ @,
            !.t = Append(@, newPointIdx),
            !.triUv = Append(@, uvIdx)]

\* one triangle of a chart (lines 158-220)
TriangleNotCounted(st, atlasId, chart, triangleID, m0, pv0) ==
    LET tri == At(m0.tris, triangleID)
        s0 == [st EXCEPT !.t = <<>>, !.triUv = <<>>,
                         !.atl[atlasId + 1] = Append(@, st.triangleCount)]
        s1 == Corner(s0, chart, tri[1], m0, pv0)
        s2 == Corner(s1, chart, tri[2], m0, pv0)
        s3 == Corner(s2, chart, tri[3], m0, pv0)
    IN  [s3 EXCEPT !.tris = Append(@, s3.t),
                   !.trisUv = Append(@, s3.triUv)]

Triangle(st, atlasId, chart, triangleID, m0, pv0) ==
    LET tri == At(m0.tris, triangleID)
        s0 == [st EXCEPT !.t = <<>>, !.triUv = <<>>,
                         !.atl[atlasId + 1] = Append(@, st.triangleCount)]
        s1 == Corner(s0, chart, tri[1], m0, pv0)
        s2 == Corner(s1, chart, tri[2], m0, pv0)
        s3 == Corner(s2, chart, tri[3], m0, pv0)
    IN  [s3 EXCEPT !.tris = Append(@, s3.t),
                   !.trisUv = Append(@, s3.triUv),
                   !.triangleCount = @ + 1]

RECURSIVE ChartTriangles(_, _, _, _, _, _)
ChartTriangles(st, atlasId, chart, i, m0, pv0) ==
    IF i >= Len(chart.triangleIDs) THEN st
    ELSE ChartTriangles(Triangle(st, atlasId, chart, At(chart.triangleIDs, i), m0, pv0),
                        atlasId, chart, i + 1, m0, pv0)

\* the charts of one atlas (lines 148-222): each chart starts with an empty uvCache
RECURSIVE AtlasChartsOneCache(_, _, _, _, _, _)
AtlasChartsOneCache(st, atlasId, charts, j, m0, pv0) ==
    IF j >= Len(charts) THEN st
    ELSE AtlasChartsOneCache(ChartTriangles(st, atlasId, At(charts, j), 0, m0, pv0),
                             atlasId, charts, j + 1, m0, pv0)

RECURSIVE AtlasCharts(_, _, _, _, _, _)
AtlasCharts(st, atlasId, charts, j, m0, pv0) ==
    IF j >= Len(charts) THEN st
    ELSE AtlasCharts(ChartTriangles([st EXCEPT !.uvCache = <<>>], atlasId, At(charts, j), 0, m0, pv0),
                     atlasId, charts, j + 1, m0, pv0)

RECURSIVE AllAtlases(_, _, _, _, _)
AllAtlases(st, a, atlasId, m0, pv0) ==
    IF atlasId >= Len(a) THEN st
    ELSE AllAtlases(AtlasCharts(st, atlasId, At(a, atlasId), 0, m0, pv0), a, atlasId + 1, m0, pv0)

\* generateUVs (lines 125-231) on mesh m0, visibilities pv0 and the UV tables uv0,
\* tuv0 the object holds, for the atlases a of UVAtlas
generateUVsLoops(m0, pv0, uv0, tuv0, a) ==
    AllAtlases([pts |-> <<>>, tris |-> <<>>, vis |-> <<>>, uv |-> uv0, trisUv |-> tuv0,
                atl |-> [i \in 1 .. Len(a) |-> <<>>],
                vertexCache |-> <<>>, uvCache |-> <<>>, t |-> <<>>, triUv |-> <<>>,
                triangleCount |-> 0],
               a, 0, m0, pv0)

\* ------------------------------------------------------------------ operations
\* no texture generation has started
NoTexture ==
    /\ pc = "idle"
    /\ loop = FALSE
    /\ atlasID = 0
    /\ colorIDs = <<>>
    /\ camTriangles = <<>>
    /\ perPixelColors = <<>>
    /\ camId = 0
    /\ triPos = 0
    /\ g = 0
    /\ colorBuffer = <<>>
    /\ alphaBuffer = <<>>
    /\ files = <<>>
    /\ samples = <<>>

\* no SfM data is loaded
NoSfM ==
    /\ sfmdata = [views |-> <<>>, structure |-> <<>>, control_points |-> <<>>]
    /\ oldIdToNew = <<>>

\* no call of generateTexture runs in a thread
NoThreads == threads = <<>>

Init ==
    /\ me = NullMesh
    /\ pointsVisibilities = NullVis
    /\ uvCoords = <<>>
    /\ trisUvIds = <<>>
    /\ atlases = <<>>
    /\ mua = <<>>
    /\ vertexCache = <<>>
    /\ err = NoError
    /\ op = "Texturing"
    /\ texParams = [padding |-> MaxPadding, fillHoles |-> FALSE, downscale |-> 1]
    /\ NoTexture
    /\ NoSfM
    /\ NoThreads

\* the size check of loadFromMeshing (line 535)
sizeMismatchLoose(pv, m) == Len(pv.v) > Len(m.pts)

sizeMismatch(pv, m) == Len(pv.v) # Len(m.pts)

\* Texturing::loadFromMeshing (lines 526-537): clear(), then the mesh and its
\* visibilities are read; a mesh that cannot be read and a table of another size throw
LoadFromMeshing ==
    /\ err = NoError
    /\ pc = "idle"
    /\ UNCHANGED << sfmVars, threads, texParams, texVars >>
    /\ op' = "loadFromMeshing"
    /\ uvCoords' = <<>>
    /\ trisUvIds' = <<>>
    /\ atlases' = <<>>
    /\ mua' = <<>>
    /\ vertexCache' = <<>>
    /\ \/ /\ me' = NewMesh(<<>>, <<>>)
          /\ pointsVisibilities' = NullVis
          /\ err' = "IOFailure"
       \/ \E f \in MeshFiles :
            \E v \in VisFiles(Len(f.pts)) \cup BadVisFiles(Len(f.pts)) :
                /\ me' = NewMesh(f.pts, f.tris)
                /\ pointsVisibilities' = NewVis(v)
                /\ err' = IF sizeMismatch(NewVis(v), NewMesh(f.pts, f.tris))
                          THEN "SizeMismatch"
                          ELSE NoError

\* Texturing::generateUVs (lines 120-232)
generateUVs ==
    /\ err = NoError
    /\ pc = "idle"
    /\ UNCHANGED << sfmVars, threads, texParams, texVars >>
    /\ op' = "generateUVs"
    /\ IF me.isNull
       THEN /\ err' = "MissingMesh"
            /\ UNCHANGED << me, pointsVisibilities, uvCoords, trisUvIds, atlases, mua, vertexCache >>
       ELSE /\ Len(uvCoords) + 3 * Len(me.tris) <= MaxUVs
            /\ \E a \in AtlasChoices(Len(me.tris)) :
                 LET st == generateUVsLoops(me, pointsVisibilities, uvCoords, trisUvIds, a)
                 IN  /\ me' = NewMesh(st.pts, st.tris)
                     /\ pointsVisibilities' = NewVis(st.vis)
                     /\ uvCoords' = st.uv
                     /\ trisUvIds' = st.trisUv
                     /\ atlases' = st.atl
                     /\ mua' = a
                     /\ vertexCache' = st.vertexCache
                     /\ err' = NoError

\* what dereferencing the null mesh in toGeoMesh(*me, mesh) can do (line 569):
\* the process is killed, or the call goes on with an object that holds no mesh data
NullDerefOutcomes == { "Segfault", "Undefined" }

\* the UV the external parameterizer gives point i of the reloaded mesh
GeogramUV(i) == << i % (TextureSide + 1), (i + 1) % (TextureSide + 1) >>

\* Texturing::unwrap with ABF or LSCM (lines 565-594): the mesh goes through Geogram
\* and a temporary OBJ file, replaceMesh reloads it (loadFromOBJ: clear, one atlas
\* with every triangle as the file has no material) and remaps the visibilities
unwrapGeogram ==
    /\ err = NoError
    /\ pc = "idle"
    /\ UNCHANGED << sfmVars, threads, texParams, texVars >>
    /\ op' = "unwrap"
    /\ \E method \in { "ABF", "LSCM" } :
        IF me.isNull
        THEN \E outcome \in NullDerefOutcomes :
               /\ err' = outcome
               /\ IF outcome = "Segfault"
                  THEN UNCHANGED << me, pointsVisibilities, uvCoords, trisUvIds, atlases, mua, vertexCache >>
                  ELSE /\ me' = NewMesh(<<>>, <<>>)
                       /\ pointsVisibilities' = NewVis(<<>>)
                       /\ uvCoords' = <<>>
                       /\ trisUvIds' = <<>>
                       /\ atlases' = << <<>> >>
                       /\ mua' = <<>>
                       /\ vertexCache' = <<>>
        ELSE /\ me' = me
             /\ pointsVisibilities' = NewVis([i \in 1 .. Len(me.pts) |-> CopyVisibility(pointsVisibilities.v[i])])
             /\ uvCoords' = [i \in 1 .. Len(me.pts) |-> GeogramUV(i - 1)]
             /\ trisUvIds' = me.tris
             /\ atlases' = << [i \in 1 .. Len(me.tris) |-> i - 1] >>
             /\ mua' = <<>>
             /\ vertexCache' = <<>>
             /\ err' = NoError

\* Texturing::clear (lines 481-498)
clear ==
    /\ err = NoError
    /\ pc = "idle"
    /\ UNCHANGED << sfmVars, threads, texParams, texVars >>
    /\ op' = "clear"
    /\ me' = NullMesh
    /\ pointsVisibilities' = NullVis
    /\ uvCoords' = <<>>
    /\ trisUvIds' = <<>>
    /\ atlases' = <<>>
    /\ mua' = <<>>
    /\ vertexCache' = <<>>
    /\ err' = NoError

Next == LoadFromMeshing \/ generateUVs \/ unwrapGeogram \/ clear

Spec == Init /\ [][Next]_vars

\* ------------------------------------------------------------------ generateTexture
Texels == 0 .. (TextureSide * TextureSide - 1)

\* the texels of the scan of the edge padding (lines 391-394)
Interior ==
    { i \in Texels : /\ i % TextureSide >= 1 /\ i % TextureSide < TextureSide - 1
                     /\ i \div TextureSide >= 1 /\ i \div TextureSide < TextureSide - 1 }

\* AccuColor (lines 244-268); a colour is one integer channel
AccuColor == [colorSum |-> 0, count |-> 0]

addUncounted(acc, color) == [colorSum |-> acc.colorSum + color, count |-> acc.count]

add(acc, color) == [colorSum |-> acc.colorSum + color, count |-> acc.count + 1]

average(acc) == IF acc.count > 0 THEN acc.colorSum \div acc.count ELSE acc.colorSum

\* imageCache.getPixelValueInterpolated: the colour camera cam shows at the
\* projection of texel x
getPixelValueInterpolated(x, cam) == 10 * (cam + 1) + (x % 3)

\* the cameras of a triangle: the set of the visibilities of its points (lines 290-300)
triCamsFirstCorner(t) ==
    LET e == At(pointsVisibilities.v, At(me.tris, t)[1])
    IN  IF e.isNull THEN {} ELSE Range(e.cams)

triCams(t) ==
    UNION { LET e == At(pointsVisibilities.v, At(me.tris, t)[k])
            IN  IF e.isNull THEN {} ELSE Range(e.cams) : k \in 1 .. 3 }

\* the triangles of an atlas registered under the cameras that see them (lines 286-304)
RECURSIVE registerTriangles(_, _, _)
registerTriangles(ct, atl, i) ==
    IF i >= Len(atl) THEN ct
    ELSE LET triangleId == At(atl, i)
         IN  registerTriangles(
                 [c \in 1 .. NumCams |->
                     IF (c - 1) \in triCams(triangleId) THEN Append(ct[c], triangleId) ELSE ct[c]],
                 atl, i + 1)

\* one round of the scan of the edge padding (lines 391-416), texel by texel
RECURSIVE scanLeftRight(_, _)
scanLeftRight(ids, i) ==
    IF i > TextureSide * TextureSide - 1 THEN ids
    ELSE IF i \notin Interior \/ ids[i] > 0 THEN scanLeftRight(ids, i + 1)
    ELSE IF ids[i - 1] > 0 THEN scanLeftRight([ids EXCEPT ![i] = (i - 1) * (-1)], i + 1)
    ELSE IF ids[i + 1] > 0 THEN scanLeftRight([ids EXCEPT ![i] = (i + 1) * (-1)], i + 1)
    ELSE scanLeftRight(ids, i + 1)

RECURSIVE scanChained(_, _)
scanChained(ids, i) ==
    IF i > TextureSide * TextureSide - 1 THEN ids
    ELSE IF i \notin Interior \/ ids[i] > 0 THEN scanChained(ids, i + 1)
    ELSE IF ids[i - 1] # -1 THEN scanChained([ids EXCEPT ![i] = (i - 1) * (-1)], i + 1)
    ELSE IF ids[i + 1] # -1 THEN scanChained([ids EXCEPT ![i] = (i + 1) * (-1)], i + 1)
    ELSE IF ids[i + TextureSide] # -1
         THEN scanChained([ids EXCEPT ![i] = (i + TextureSide) * (-1)], i + 1)
    ELSE IF ids[i - TextureSide] # -1
         THEN scanChained([ids EXCEPT ![i] = (i - TextureSide) * (-1)], i + 1)
    ELSE scanChained(ids, i + 1)

RECURSIVE scan(_, _)
scan(ids, i) ==
    IF i > TextureSide * TextureSide - 1 THEN ids
    ELSE IF i \notin Interior \/ ids[i] > 0 THEN scan(ids, i + 1)
    ELSE IF ids[i - 1] > 0 THEN scan([ids EXCEPT ![i] = (i - 1) * (-1)], i + 1)
    ELSE IF ids[i + 1] > 0 THEN scan([ids EXCEPT ![i] = (i + 1) * (-1)], i + 1)
    ELSE IF ids[i + TextureSide] > 0
         THEN scan([ids EXCEPT ![i] = (i + TextureSide) * (-1)], i + 1)
    ELSE IF ids[i - TextureSide] > 0
         THEN scan([ids EXCEPT ![i] = (i - TextureSide) * (-1)], i + 1)
    ELSE scan(ids, i + 1)

\* the resolution pass of a round (lines 417-421), texel by texel
resolveNone(ids, i) == ids

RECURSIVE resolve(_, _)
resolve(ids, i) ==
    IF i > TextureSide * TextureSide - 1 THEN ids
    ELSE IF ids[i] < 0 THEN resolve([ids EXCEPT ![i] = ids[ids[i] * (-1)]], i + 1)
    ELSE resolve(ids, i + 1)

\* imageIO::fillHoles: the texels of alpha 0 get the colour of the valid texel before
\* them (black when there is none)
RECURSIVE fillHoles(_, _, _, _)
fillHoles(buf, alpha, i, last) ==
    IF i > TextureSide * TextureSide - 1 THEN buf
    ELSE IF alpha[i] = 1 THEN fillHoles(buf, alpha, i + 1, buf[i])
    ELSE fillHoles([buf EXCEPT ![i] = last], alpha, i + 1, last)

\* imageIO::resizeImage: every d-th texel of every d-th row
resizeImage(buf, d) ==
    LET out == TextureSide \div d
    IN  [i \in 0 .. (out * out - 1) |-> buf[(i \div out) * d * TextureSide + (i % out) * d]]

\* Texturing::generateTextures (lines 234-240): the atlases in the order of their index
generateTextures ==
    /\ err = NoError
    /\ pc = "idle"
    /\ op' = "generateTextures"
    /\ loop' = TRUE
    /\ atlasID' = 0
    /\ pc' = IF 0 < Len(atlases) THEN "generateTexture" ELSE "done"
    /\ UNCHANGED << sfmVars, threads, meshVars, err, texParams, colorIDs, camTriangles, perPixelColors, camId,
                    triPos, g, colorBuffer, alphaBuffer, files, samples >>

\* a call of generateTexture for one atlas id, one not yet written or one past the last
callGenerateTexture ==
    /\ err = NoError
    /\ pc = "idle"
    /\ ~me.isNull
    /\ op' = "generateTexture"
    /\ loop' = FALSE
    /\ \E id \in (0 .. Len(atlases)) \ DOMAIN files : atlasID' = id
    /\ pc' = "generateTexture"
    /\ UNCHANGED << sfmVars, threads, meshVars, err, texParams, colorIDs, camTriangles, perPixelColors, camId,
                    triPos, g, colorBuffer, alphaBuffer, files, samples >>

\* generateTexture up to the rasterization (lines 274-308): the atlas id is checked,
\* the buffers are made and the triangles of the atlas are registered by camera
groupTriangles ==
    /\ pc = "generateTexture"
    /\ op' = "groupTriangles"
    /\ IF atlasID >= Len(atlases)
       THEN /\ err' = "InvalidAtlasIndex"
            /\ pc' = "failed"
            /\ UNCHANGED << colorIDs, camTriangles, perPixelColors, camId, triPos, samples >>
       ELSE /\ colorIDs' = [i \in Texels |-> -1]
            /\ camTriangles' = registerTriangles([c \in 1 .. NumCams |-> <<>>], At(atlases, atlasID), 0)
            /\ perPixelColors' = [i \in Texels |-> AccuColor]
            /\ samples' = [i \in Texels |-> EmptyBag]
            /\ camId' = 0
            /\ triPos' = 0
            /\ pc' = "raster"
            /\ err' = NoError
    /\ UNCHANGED << sfmVars, threads, meshVars, texParams, loop, atlasID, g, colorBuffer, alphaBuffer, files >>

\* one triangle of one camera (lines 316-379): hit is the set of texels of the
\* bounding box that are in the triangle and project into the image of the camera
rasterTriangle(hit) ==
    /\ pc = "raster"
    /\ camId < NumCams
    /\ triPos < Len(camTriangles[camId + 1])
    /\ op' = "rasterTriangle"
    /\ colorIDs' = [i \in Texels |-> IF i \in hit THEN i ELSE colorIDs[i]]
    /\ perPixelColors' =
           [i \in Texels |-> IF i \in hit
                             THEN add(perPixelColors[i], getPixelValueInterpolated(i, camId))
                             ELSE perPixelColors[i]]
    /\ samples' =
           [i \in Texels |-> IF i \in hit
                             THEN samples[i] (+) SetToBag({ getPixelValueInterpolated(i, camId) })
                             ELSE samples[i]]
    /\ triPos' = triPos + 1
    /\ UNCHANGED << sfmVars, threads, meshVars, err, texParams, pc, loop, atlasID, camTriangles, camId, g,
                    colorBuffer, alphaBuffer, files >>

\* the end of the triangles of a camera (line 381)
nextCamera ==
    /\ pc = "raster"
    /\ camId < NumCams
    /\ triPos = Len(camTriangles[camId + 1])
    /\ op' = "nextCamera"
    /\ camId' = camId + 1
    /\ triPos' = 0
    /\ UNCHANGED << sfmVars, threads, meshVars, err, texParams, pc, loop, atlasID, colorIDs, camTriangles,
                    perPixelColors, g, colorBuffer, alphaBuffer, files, samples >>

\* the end of the rasterization (lines 383-389)
endRaster ==
    /\ pc = "raster"
    /\ camId = NumCams
    /\ op' = "endRaster"
    /\ camTriangles' = <<>>
    /\ g' = 0
    /\ pc' = IF ~texParams.fillHoles /\ texParams.padding > 0 THEN "padScan" ELSE "average"
    /\ UNCHANGED << sfmVars, threads, meshVars, err, texParams, loop, atlasID, colorIDs, perPixelColors, camId,
                    triPos, colorBuffer, alphaBuffer, files, samples >>

\* the scan of round g of the edge padding (lines 391-416)
padScan ==
    /\ pc = "padScan"
    /\ op' = "padScan"
    /\ colorIDs' = scan(colorIDs, 0)
    /\ pc' = "padResolve"
    /\ UNCHANGED << sfmVars, threads, meshVars, err, texParams, loop, atlasID, camTriangles, perPixelColors,
                    camId, triPos, g, colorBuffer, alphaBuffer, files, samples >>

\* the resolution pass of round g (lines 417-422)
padResolve ==
    /\ pc = "padResolve"
    /\ op' = "padResolve"
    /\ colorIDs' = resolve(colorIDs, 0)
    /\ g' = g + 1
    /\ pc' = IF g + 1 < texParams.padding THEN "padScan" ELSE "average"
    /\ UNCHANGED << sfmVars, threads, meshVars, err, texParams, loop, atlasID, camTriangles, perPixelColors,
                    camId, triPos, colorBuffer, alphaBuffer, files, samples >>

\* the colour of every texel (lines 428-452)
finalAverage ==
    /\ pc = "average"
    /\ op' = "finalAverage"
    /\ colorBuffer' = [i \in Texels |-> IF colorIDs[i] >= 0
                                        THEN average(perPixelColors[colorIDs[i]])
                                        ELSE 0]
    /\ alphaBuffer' = IF texParams.fillHoles
                      THEN [i \in Texels |-> IF colorIDs[i] >= 0 THEN 1 ELSE 0]
                      ELSE <<>>
    /\ perPixelColors' = <<>>
    /\ colorIDs' = <<>>
    /\ pc' = "write"
    /\ UNCHANGED << sfmVars, threads, meshVars, err, texParams, loop, atlasID, camTriangles, camId, triPos, g,
                    files, samples >>

\* the image generateTexture writes (lines 458-476)
textureImage ==
    LET filled == IF texParams.fillHoles THEN fillHoles(colorBuffer, alphaBuffer, 0, 0)
                  ELSE colorBuffer
    IN  IF texParams.downscale > 1
        THEN [side |-> TextureSide \div texParams.downscale,
              pixels |-> resizeImage(filled, texParams.downscale)]
        ELSE [side |-> TextureSide, pixels |-> filled]

\* the atlas generateTextures takes after atlas id (line 238)
nextAtlasSkipping(id) == id + 2

nextAtlas(id) == id + 1

\* hole filling, downscaling and imageIO::writeImage (lines 454-478), which may fail;
\* generateTextures then goes on with the next atlas
writeTexture ==
    /\ pc = "write"
    /\ op' = "writeTexture"
    /\ alphaBuffer' = <<>>
    /\ \/ /\ files' = (atlasID :> textureImage) @@ files
          /\ err' = NoError
          /\ IF loop /\ nextAtlas(atlasID) < Len(atlases)
             THEN /\ atlasID' = nextAtlas(atlasID)
                  /\ pc' = "generateTexture"
             ELSE /\ atlasID' = atlasID
                  /\ pc' = IF loop THEN "done" ELSE "idle"
       \/ /\ err' = "IOFailure"
          /\ pc' = "failed"
          /\ UNCHANGED << files, atlasID >>
    /\ UNCHANGED << sfmVars, threads, meshVars, texParams, loop, colorIDs, camTriangles, perPixelColors, camId,
                    triPos, g, colorBuffer, samples >>

\* the sets of at most k texels
RECURSIVE TexelSets(_)
TexelSets(k) ==
    IF k = 0 THEN { {} }
    ELSE LET P == TexelSets(k - 1) IN P \cup { S \cup {x} : S \in P, x \in Texels }

\* the texels a triangle may hit: any texels, few of them
PadHits == TexelSets(MaxHits)

\* the texels a triangle may hit: none, or texel 0 and a texel of the interior
TexHits == { {}, { 0, TextureSide + 1 } }

\* the texture parameters of the runs
TexConfigs ==
    { [padding |-> 0, fillHoles |-> FALSE, downscale |-> 1],
      [padding |-> MaxPadding, fillHoles |-> FALSE, downscale |-> 2],
      [padding |-> MaxPadding, fillHoles |-> TRUE, downscale |-> 1] }

\* an object after loadFromMeshing of file f with visibilities v and generateUVs with
\* atlases a
Unwrapped(f, v, a) ==
    LET st == generateUVsLoops(NewMesh(f.pts, f.tris), NewVis(v), <<>>, <<>>, a)
    IN  /\ me = NewMesh(st.pts, st.tris)
        /\ pointsVisibilities = NewVis(st.vis)
        /\ uvCoords = st.uv
        /\ trisUvIds = st.trisUv
        /\ atlases = st.atl
        /\ mua = a
        /\ vertexCache = st.vertexCache
        /\ err = NoError
        /\ op = "generateUVs"

\* charts without reference camera, placed at the origin
PlainAtlasChoices(nTris) ==
    { a \in AtlasChoices(nTris) :
        \A j \in 1 .. Len(a) : \A c \in 1 .. Len(a[j]) :
            a[j][c].refCameraID = -1 /\ a[j][c].targetLU = <<0, 0>> }

\* texture generation on the unwrapped meshes
InitTex ==
    /\ \E f \in MeshFiles : \E v \in VisFiles(Len(f.pts)) : \E a \in PlainAtlasChoices(Len(f.tris)) :
           Unwrapped(f, v, a)
    /\ texParams \in TexConfigs
    /\ NoTexture
    /\ NoSfM
    /\ NoThreads

NextTex ==
    \/ generateTextures
    \/ callGenerateTexture
    \/ groupTriangles
    \/ \E hit \in TexHits : rasterTriangle(hit)
    \/ nextCamera
    \/ endRaster
    \/ padScan
    \/ padResolve
    \/ finalAverage
    \/ writeTexture

SpecTex == InitTex /\ [][NextTex]_vars

\* edge padding of one triangle seen by camera 0
InitPad ==
    /\ \E f \in { m \in MeshFiles : Len(m.pts) = 3 } :
           Unwrapped(f, [i \in 1 .. 3 |-> Vec(<<0>>)],
                     << << Chart(<<0>>, -1, <<0, 0>>) >> >>)
    /\ texParams \in { [padding |-> n, fillHoles |-> FALSE, downscale |-> 1] : n \in 1 .. MaxPadding }
    /\ NoTexture
    /\ NoSfM
    /\ NoThreads

NextPad ==
    \/ generateTextures
    \/ groupTriangles
    \/ \E hit \in PadHits : rasterTriangle(hit)
    \/ nextCamera
    \/ endRaster
    \/ padScan
    \/ padResolve
    \/ finalAverage
    \/ writeTexture

SpecPad == InitPad /\ [][NextPad]_vars

\* ------------------------------------------------------------------ properties
RECURSIVE Flatten(_)
Flatten(ss) == IF ss = <<>> THEN <<>> ELSE Head(ss) \o Flatten(Tail(ss))

\* the charts of all atlases, in the order generateUVs walks them
FlatCharts(a) == Flatten(a)

\* for each new triangle, in order: the input triangle it was made from, the chart
\* (number in FlatCharts) and the atlas it belongs to
SrcTriangles(a) == Flatten([c \in 1 .. Len(FlatCharts(a)) |-> FlatCharts(a)[c].triangleIDs])

ChartOfNew(a) ==
    Flatten([c \in 1 .. Len(FlatCharts(a)) |->
                [i \in 1 .. Len(FlatCharts(a)[c].triangleIDs) |-> c]])

AtlasOfNew(a) ==
    Flatten([j \in 1 .. Len(a) |->
                Flatten([c \in 1 .. Len(a[j]) |->
                            [i \in 1 .. Len(a[j][c].triangleIDs) |-> j - 1]])])

\* the 3D positions of the corners of triangle t of mesh m
TriLocs(m, t) == [k \in 1 .. 3 |-> At(m.pts, At(m.tris, t)[k])]

\* the places (atlas, position) where triangle t is listed
Occurrences(atl, t) ==
    { jp \in UNION { { <<j, i>> : i \in 1 .. Len(atl[j]) } : j \in 1 .. Len(atl) } :
        atl[jp[1]][jp[2]] = t }

\* a run of generateUVs on a loaded mesh
UVRun == op' = "generateUVs" /\ ~me.isNull

\* C3: after generateUVs every triangle of the input mesh is one triangle of the new
\* mesh, listed exactly once in all the atlas lists together, in the atlas of its chart
C3_TrianglesPartitioned ==
    [][UVRun =>
        LET N == Len(me.tris)
            src == SrcTriangles(mua')
        IN  /\ Len(me'.tris) = N
            /\ Len(atlases') = Len(mua')
            /\ \A j \in 1 .. Len(atlases') : \A i \in 1 .. Len(atlases'[j]) :
                   atlases'[j][i] \in 0 .. (N - 1)
            /\ \A t \in 0 .. (N - 1) : Cardinality(Occurrences(atlases', t)) = 1
            /\ \A t \in 0 .. (N - 1) : Cardinality({ i \in 1 .. Len(src) : src[i] = t }) = 1
            /\ \A i \in 1 .. N :
                   /\ TriLocs(me', i - 1) = TriLocs(me, src[i])
                   /\ Occurrences(atlases', i - 1) \subseteq
                          { jp \in Occurrences(atlases', i - 1) : jp[1] = AtlasOfNew(mua')[i] + 1 }
    ]_vars

C3_Witness == Len(atlases) = 2 /\ Len(me.tris) = 2 /\ mua # <<>>

RECURSIVE SumLen(_, _)
SumLen(s, n) == IF n = 0 THEN 0 ELSE Len(s[n]) + SumLen(s, n - 1)

\* the atlases a with the triangles numbered as generateUVs renumbers them: the same
\* charts, atlases, cameras and placements on the mesh generateUVs left
Renumbered(a) ==
    LET tids == [c \in 1 .. Len(FlatCharts(a)) |-> FlatCharts(a)[c].triangleIDs]
    IN  [j \in 1 .. Len(a) |->
            [c \in 1 .. Len(a[j]) |->
                [a[j][c] EXCEPT !.triangleIDs =
                    [i \in 1 .. Len(a[j][c].triangleIDs) |->
                        SumLen(tids, SumLen(a, j - 1) + c - 1) + i - 1]]]]

\* C4: a second run of generateUVs, with the same charts, leaves the UV table, the
\* per-triangle UV indices and the atlas lists as the first run made them
C4_Idempotent ==
    [][(UVRun /\ mua # <<>> /\ mua' = Renumbered(mua)) =>
        /\ uvCoords' = uvCoords
        /\ trisUvIds' = trisUvIds
        /\ atlases' = atlases
    ]_vars

\* C5: a load whose visibility table has another size than the mesh has points ends
\* in SizeMismatch with an empty atlas list and empty UV tables
C5_SizeMismatch ==
    [][(op' = "loadFromMeshing" /\ ~pointsVisibilities'.isNull
            /\ Len(pointsVisibilities'.v) # Len(me'.pts)) =>
        /\ err' = "SizeMismatch"
        /\ atlases' = <<>>
        /\ uvCoords' = <<>>
        /\ trisUvIds' = <<>>
    ]_vars

C5_Witness ==
    /\ err = "SizeMismatch"
    /\ Len(me.pts) = 4
    /\ Len(pointsVisibilities.v) = 3

\* C6: unwrap with any method on an object without a mesh ends in MissingMesh and
\* leaves the UV table, the atlas lists and the visibilities as they were
C6_MissingMesh ==
    [][(me.isNull /\ op' \in { "generateUVs", "unwrap" }) =>
        /\ err' = "MissingMesh"
        /\ UNCHANGED << uvCoords, trisUvIds, atlases, pointsVisibilities >>
    ]_vars

\* C7: after generateUVs the visibility table has one entry per new point, the entry
\* of a new point is the camera list of the point it was made from (empty when that
\* had none), and every triangle references new points
C7_VisibilityFollowsPoints ==
    [][UVRun =>
        /\ Len(pointsVisibilities'.v) = Len(me'.pts)
        /\ \A i \in 0 .. (Len(me'.pts) - 1) :
               \E p \in DOMAIN vertexCache' :
                   /\ vertexCache'[p] = i
                   /\ At(me'.pts, i) = At(me.pts, p)
                   /\ ~At(pointsVisibilities'.v, i).isNull
                   /\ At(pointsVisibilities'.v, i).cams =
                          (IF At(pointsVisibilities.v, p).isNull
                           THEN <<>>
                           ELSE At(pointsVisibilities.v, p).cams)
        /\ \A t \in 1 .. Len(me'.tris) : \A k \in 1 .. 3 :
               me'.tris[t][k] \in 0 .. (Len(me'.pts) - 1)
    ]_vars

C7_Witness ==
    /\ mua # <<>>
    /\ me.pts = <<0, 2, 1>>
    /\ me.tris = << <<0, 1, 2>> >>
    /\ pointsVisibilities.v[1].cams = <<0, NumCams - 1>>
    /\ pointsVisibilities.v[2].cams = <<>>

\* the points of mesh m that a triangle references
Referenced(m) == UNION { Range(m.tris[t]) : t \in 1 .. Len(m.tris) }

\* C8: generateUVs gives each referenced point one new vertex and one UV entry per
\* chart that uses it; corners of one chart on one vertex share the UV index
C8_VertexAndUVDeduplication ==
    [][UVRun =>
        LET N == Len(me.tris)
            off == Len(trisUvIds)
            chartOf == ChartOfNew(mua')
            pairs == { << chartOf[i], me'.tris[i][k] >> : i \in 1 .. N, k \in 1 .. 3 }
        IN  /\ DOMAIN vertexCache' = Referenced(me)
            /\ \A p, q \in DOMAIN vertexCache' :
                   vertexCache'[p] = vertexCache'[q] => p = q
            /\ Len(me'.pts) = Cardinality(Referenced(me))
            /\ Len(uvCoords') - Len(uvCoords) = Cardinality(pairs)
            /\ \A i, j \in 1 .. N : \A k, l \in 1 .. 3 :
                   (chartOf[i] = chartOf[j] /\ me'.tris[i][k] = me'.tris[j][l]) =>
                       trisUvIds'[off + i][k] = trisUvIds'[off + j][l]
            /\ \A i, j \in 1 .. N : \A k, l \in 1 .. 3 :
                   (chartOf[i] # chartOf[j]) =>
                       trisUvIds'[off + i][k] # trisUvIds'[off + j][l]
    ]_vars

C8_Witness ==
    /\ mua # <<>>
    /\ Len(me.pts) = 4
    /\ Len(uvCoords) = 6
    /\ Len(FlatCharts(mua)) = 2

\* C9: every UV that generateUVs adds lies in [0,1] x [0,1] (0 .. TextureSide in the
\* stored units), and a corner of a chart without reference camera, or whose
\* projection is outside the image of that camera, has the UV (0,0)
C9_UVInUnitSquare ==
    [][UVRun =>
        LET N == Len(me.tris)
            off == Len(trisUvIds)
            chartOf == ChartOfNew(mua')
        IN  /\ \A u \in (Len(uvCoords) + 1) .. Len(uvCoords') :
                   /\ uvCoords'[u][1] \in 0 .. TextureSide
                   /\ uvCoords'[u][2] \in 0 .. TextureSide
            /\ \A i \in 1 .. N : \A k \in 1 .. 3 :
                   LET chart == FlatCharts(mua')[chartOf[i]]
                       loc == At(me'.pts, me'.tris[i][k])
                       uv == At(uvCoords', trisUvIds'[off + i][k])
                   IN  (\/ chart.refCameraID = -1
                        \/ ~isPixelInImage(getPixelFor3DPoint(loc, chart.refCameraID),
                                           chart.refCameraID))
                           => uv = <<0, 0>>
    ]_vars

C9_Witness ==
    /\ mua # <<>>
    /\ FlatCharts(mua)[1].refCameraID # -1
    /\ \E u \in 1 .. Len(uvCoords) : uvCoords[u] = <<0, 0>>
    /\ \E u \in 1 .. Len(uvCoords) : uvCoords[u][1] > 0 /\ uvCoords[u][2] < TextureSide

\* the texels that received a sample
Sampled == { x \in Texels : perPixelColors[x].count > 0 }

\* the 4-neighbours of a texel
Neighbours(x) ==
    { n \in Texels :
        \/ n \div TextureSide = x \div TextureSide /\ (n = x - 1 \/ n = x + 1)
        \/ n = x - TextureSide
        \/ n = x + TextureSide }

\* the number of 4-neighbour steps between two texels
Steps(x, y) ==
    LET dx == (x % TextureSide) - (y % TextureSide)
        dy == (x \div TextureSide) - (y \div TextureSide)
    IN  (IF dx < 0 THEN -dx ELSE dx) + (IF dy < 0 THEN -dy ELSE dy)

\* the texels joined to a texel of S by at most k steps through interior texels
RECURSIVE Reach(_, _)
Reach(S, k) ==
    IF k = 0 THEN S
    ELSE LET R == Reach(S, k - 1)
         IN  R \cup { x \in Interior : Neighbours(x) \cap R # {} }

\* the state after the last padding round
Padded == pc = "average" /\ ~texParams.fillHoles /\ texParams.padding > 0

RECURSIVE SumOver(_, _)
SumOver(S, B) ==
    IF S = {} THEN 0
    ELSE LET v == CHOOSE w \in S : TRUE
         IN  v * CopiesIn(v, B) + SumOver(S \ {v}, B)

\* the sum of the elements of a bag of numbers
BagSum(B) == SumOver(BagToSet(B), B)

\* C2: the colour of a texel that received samples is the sum of all the samples
\* added to it divided by their number, whatever the order of the additions
C2_MeanOfSamples ==
    pc = "write" =>
        \A x \in Texels :
            samples[x] # EmptyBag =>
                colorBuffer[x] = BagSum(samples[x]) \div BagCardinality(samples[x])

C2_Witness ==
    /\ pc = "write"
    /\ texParams.padding > 0
    /\ ~texParams.fillHoles
    /\ \E x \in Texels :
           /\ BagCardinality(samples[x]) >= 3
           /\ Cardinality(BagToSet(samples[x])) >= 2

\* the number of times t occurs in the sequence s
Count(s, t) == Cardinality({ i \in 1 .. Len(s) : s[i] = t })

\* C10: a triangle of the atlas is registered once under each camera that is in the
\* visibility of one of its three points, and under no other camera; the triangles
\* of the other atlases are not registered
C10_CameraTriangleGrouping ==
    pc = "raster" =>
        \A c \in Cams : \A t \in 0 .. (Len(me.tris) - 1) :
            Count(camTriangles[c + 1], t) =
                (IF /\ t \in Range(At(atlases, atlasID))
                    /\ \E k \in 1 .. 3 :
                           /\ ~At(pointsVisibilities.v, At(me.tris, t)[k]).isNull
                           /\ c \in Range(At(pointsVisibilities.v, At(me.tris, t)[k]).cams)
                 THEN 1
                 ELSE 0)

C10_Witness ==
    /\ pc = "raster"
    /\ Len(atlases) = 2
    /\ Len(camTriangles[1]) = 1
    /\ Len(camTriangles[NumCams]) = 1
    /\ \E t \in 0 .. (Len(me.tris) - 1) :
           /\ t \in Range(camTriangles[NumCams])
           /\ At(pointsVisibilities.v, At(me.tris, t)[1]).cams # <<0, NumCams - 1>>


\* C11: generateTextures takes the atlases in the order of their index and writes one
\* texture for each; a failure at atlas k ends the run with the error set, the
\* textures of the atlases below k stay as written and none is written above k
C11_InOrderFailurePropagates ==
    [][/\ err = NoError
       /\ files' # files =>
              /\ op' = "writeTexture"
              /\ err' = NoError
              /\ DOMAIN files' = DOMAIN files \cup {atlasID}
              /\ \A k \in DOMAIN files \ {atlasID} : files'[k] = files[k]
       /\ (loop /\ loop' /\ atlasID' # atlasID) =>
              /\ op' = "writeTexture"
              /\ atlasID' = atlasID + 1
              /\ atlasID \in DOMAIN files'
       /\ (loop' /\ pc' = "done") => DOMAIN files' = 0 .. (Len(atlases) - 1)
       /\ (loop' /\ pc' = "failed") =>
              /\ err' # NoError
              /\ files' = files
              /\ \A k \in 0 .. (atlasID' - 1) : k \in DOMAIN files'
    ]_vars

C11_Witness ==
    /\ loop
    /\ pc = "failed"
    /\ err = "IOFailure"
    /\ Len(atlases) = 2
    /\ atlasID = 1
    /\ DOMAIN files = {0}


\* C13 as stated: after the padding rounds a texel without sample that has no sampled
\* texel within `padding` 4-neighbour steps still has the empty sentinel as colour id
C13_BorderOfRequestedWidth ==
    Padded =>
        \A x \in Texels \ Sampled :
            (\A y \in Sampled : Steps(x, y) > texParams.padding) => colorIDs[x] = -1

\* the neighbours of a texel in the order the scan tests them (lines 399-413)
scanOrder(x) == << x - 1, x + 1, x + TextureSide, x - TextureSide >>

\* the first neighbour of x, in the order of the scan, with a valid colour id in ids
\* (0 when there is none)
firstValid(ids, x) ==
    LET ks == { k \in 1 .. 4 : ids[scanOrder(x)[k]] > 0 }
    IN  IF ks = {} THEN 0
        ELSE scanOrder(x)[CHOOSE k \in ks : \A j \in ks : k <= j]

\* C14: the scan of a round marks an interior texel without valid colour id as a
\* reference to the first of its left, right, below and above neighbours whose colour
\* id was valid when the round started, and changes no other texel; a texel marked
\* in the round is no source in that round
C14_ScanPriority ==
    [][op' = "padScan" =>
        \A x \in Texels :
            IF x \in Interior /\ ~(colorIDs[x] > 0) /\ firstValid(colorIDs, x) # 0
            THEN colorIDs'[x] = firstValid(colorIDs, x) * (-1)
            ELSE colorIDs'[x] = colorIDs[x]
    ]_vars

C14_Witness ==
    /\ op = "padScan"
    /\ g = 0
    /\ \E x \in Interior :
           /\ colorIDs[x] = (x - 1) * (-1)
           /\ (x + TextureSide) \in Sampled
    /\ \E w \in Interior :
           /\ colorIDs[w] = -1
           /\ colorIDs[w - 1] < -1

\* C15: after the resolution pass of a padding round, and when the final average
\* starts, each colour id is the empty sentinel or the index of a texel that
\* received a sample
C15_NoBackReferenceLeft ==
    (op = "padResolve" \/ pc = "average") =>
        \A x \in Texels :
            \/ colorIDs[x] = -1
            \/ /\ colorIDs[x] \in Texels
               /\ perPixelColors[colorIDs[x]].count > 0

C15_Witness ==
    /\ op = "padResolve"
    /\ g = 2
    /\ \E x \in Interior \ Sampled :
           /\ colorIDs[x] >= 0
           /\ colorIDs[x] \notin Neighbours(x)
           /\ colorIDs[x] # 1
    /\ \E x \in Texels : colorIDs[x] = -1


\* ------------------------------------------------------------------ parallel calls
\* the texels of triangle t that are inside it and project into the image of camera
\* cam (the tests of lines 356 and 371)
texelsOf(t, cam) == { t + cam, TextureSide + 1 + t }

\* the locals of a call of generateTexture before it starts
NoLocals ==
    [pc |-> "idle", colorIDs |-> <<>>, camTriangles |-> <<>>, perPixelColors |-> <<>>,
     camId |-> 0, triPos |-> 0, g |-> 0, colorBuffer |-> <<>>, alphaBuffer |-> <<>>]

\* one triangle of one camera (lines 316-379) on the locals l
rasterOne(l, t, cam) ==
    [l EXCEPT
        !.colorIDs = [i \in Texels |-> IF i \in texelsOf(t, cam) THEN i ELSE l.colorIDs[i]],
        !.perPixelColors =
            [i \in Texels |-> IF i \in texelsOf(t, cam)
                              THEN add(l.perPixelColors[i], getPixelValueInterpolated(i, cam))
                              ELSE l.perPixelColors[i]],
        !.triPos = l.triPos + 1]

\* the next step of generateTexture for atlas id on the locals l, up to the writing
texStep(l, id) ==
    CASE l.pc = "generateTexture" ->
            [l EXCEPT !.colorIDs = [i \in Texels |-> -1],
                      !.camTriangles =
                          registerTriangles([c \in 1 .. NumCams |-> <<>>], At(atlases, id), 0),
                      !.perPixelColors = [i \in Texels |-> AccuColor],
                      !.camId = 0, !.triPos = 0, !.pc = "raster"]
      [] l.pc = "raster" /\ l.camId = NumCams ->
            [l EXCEPT !.camTriangles = <<>>, !.g = 0,
                      !.pc = IF ~texParams.fillHoles /\ texParams.padding > 0
                             THEN "padScan" ELSE "average"]
      [] l.pc = "raster" /\ l.camId < NumCams /\ l.triPos < Len(l.camTriangles[l.camId + 1]) ->
            rasterOne(l, At(l.camTriangles[l.camId + 1], l.triPos), l.camId)
      [] l.pc = "raster" /\ l.camId < NumCams /\ l.triPos >= Len(l.camTriangles[l.camId + 1]) ->
            [l EXCEPT !.camId = l.camId + 1, !.triPos = 0]
      [] l.pc = "padScan" ->
            [l EXCEPT !.colorIDs = scan(l.colorIDs, 0), !.pc = "padResolve"]
      [] l.pc = "padResolve" ->
            [l EXCEPT !.colorIDs = resolve(l.colorIDs, 0), !.g = l.g + 1,
                      !.pc = IF l.g + 1 < texParams.padding THEN "padScan" ELSE "average"]
      [] l.pc = "average" ->
            [l EXCEPT !.colorBuffer = [i \in Texels |-> IF l.colorIDs[i] >= 0
                                                        THEN average(l.perPixelColors[l.colorIDs[i]])
                                                        ELSE 0],
                      !.alphaBuffer = IF texParams.fillHoles
                                      THEN [i \in Texels |-> IF l.colorIDs[i] >= 0 THEN 1 ELSE 0]
                                      ELSE <<>>,
                      !.perPixelColors = <<>>, !.colorIDs = <<>>, !.pc = "write"]

\* the image written from the buffers buf and alpha (lines 458-476)
imageOf(buf, alpha) ==
    LET filled == IF texParams.fillHoles THEN fillHoles(buf, alpha, 0, 0) ELSE buf
    IN  IF texParams.downscale > 1
        THEN [side |-> TextureSide \div texParams.downscale,
              pixels |-> resizeImage(filled, texParams.downscale)]
        ELSE [side |-> TextureSide, pixels |-> filled]

\* the locals the call for atlas id works on: its own (lines 278, 280, 308, 428, 429)
localsShared(id) == 0

localsOf(id) == id

\* a thread calls generateTexture for atlas id
startThread(id) ==
    /\ err = NoError
    /\ threads[localsOf(id)].pc = "idle"
    /\ id \notin DOMAIN files
    /\ op' = "startThread"
    /\ threads' = [threads EXCEPT ![localsOf(id)] = [NoLocals EXCEPT !.pc = "generateTexture"]]
    /\ UNCHANGED << sfmVars, meshVars, err, texParams, texVars >>

\* the thread of atlas id takes one step
stepThread(id) ==
    /\ threads[localsOf(id)].pc \notin { "idle", "write", "done" }
    /\ op' = "stepThread"
    /\ threads' = [threads EXCEPT ![localsOf(id)] = texStep(threads[localsOf(id)], id)]
    /\ UNCHANGED << sfmVars, meshVars, err, texParams, texVars >>

\* the thread of atlas id writes its texture (lines 454-478)
writeThread(id) ==
    /\ threads[localsOf(id)].pc = "write"
    /\ op' = "writeThread"
    /\ files' = (id :> imageOf(threads[localsOf(id)].colorBuffer,
                               threads[localsOf(id)].alphaBuffer)) @@ files
    /\ threads' = [threads EXCEPT ![localsOf(id)].pc = "done", ![localsOf(id)].alphaBuffer = <<>>]
    /\ UNCHANGED << sfmVars, meshVars, err, texParams, pc, loop, atlasID, colorIDs,
                    camTriangles, perPixelColors, camId, triPos, g, colorBuffer, alphaBuffer,
                    samples >>

\* one thread for each atlas of an unwrapped mesh
InitPar ==
    /\ \E f \in MeshFiles : \E v \in VisFiles(Len(f.pts)) : \E a \in PlainAtlasChoices(Len(f.tris)) :
           Unwrapped(f, v, a)
    /\ texParams \in TexConfigs
    /\ NoTexture
    /\ NoSfM
    /\ threads = [id \in 0 .. (Len(atlases) - 1) |-> NoLocals]

NextPar ==
    \/ \E id \in 0 .. (Len(atlases) - 1) : startThread(id)
    \/ \E id \in 0 .. (Len(atlases) - 1) : stepThread(id)
    \/ \E id \in 0 .. (Len(atlases) - 1) : writeThread(id)

SpecPar == InitPar /\ [][NextPar]_vars

\* generateTexture for atlas id run alone, from the call to the writing
RECURSIVE runCall(_, _)
runCall(l, id) == IF l.pc = "write" THEN l ELSE runCall(texStep(l, id), id)

\* the texture of atlas id when the atlases are processed one after the other
SeqTexture(id) ==
    LET l == runCall([NoLocals EXCEPT !.pc = "generateTexture"], id)
    IN  imageOf(l.colorBuffer, l.alphaBuffer)

ViewIds == 0 .. MaxViewId

\* exif::computeUID: the UID of the image of a view
computeUID(image) == (image + 1) % (MaxViewId + 1)

\* the keys of a std::map in the order of its iteration
keysOf(m) == SortedSeq(DOMAIN m)

\* regenerateViewUIDs (lines 78-96): the loop over the views from the i-th key on;
\* emplace leaves an existing key alone, failed records a failed assert
RECURSIVE viewLoop(_, _, _)
viewLoop(st, views, i) ==
    IF i > Len(keysOf(views)) THEN st
    ELSE LET currentView == views[keysOf(views)[i]]
             uid == computeUID(currentView.image)
             known == currentView.id \in DOMAIN st.map
             taken == uid \in DOMAIN st.newViews
             added == IF taken THEN st.newViews ELSE (uid :> currentView) @@ st.newViews
         IN  viewLoop([map |-> IF known THEN st.map ELSE (currentView.id :> uid) @@ st.map,
                       newViews |-> [added EXCEPT ![uid].id = uid],
                       failed |-> st.failed \/ known \/ taken],
                      views, i + 1)

\* regenerateViewUIDs (lines 70-100) on non-empty views
regenerateViewUIDs(views, map) ==
    LET st == viewLoop([map |-> map, newViews |-> <<>>, failed |-> FALSE], views, 1)
    IN  [st EXCEPT !.failed =
             st.failed \/ Cardinality(DOMAIN st.newViews) # Cardinality(DOMAIN views)]

\* sanityCheckLandmarks (lines 35-50): TRUE when no assert fails
sanityCheckLandmarks(landmarks, views) ==
    \A lm \in DOMAIN landmarks : \A idview \in DOMAIN landmarks[lm] :
        /\ idview \in DOMAIN views
        /\ views[idview].id = idview

\* regenerateUID (lines 52-67); a failed assert ends a debug build and does nothing
\* in a build with NDEBUG
regenerateUID ==
    /\ err = NoError
    /\ pc = "idle"
    /\ \E sanityCheck \in BOOLEAN, ndebug \in BOOLEAN :
         /\ op' = IF sanityCheck THEN "regenerateUID(sanityCheck)" ELSE "regenerateUID"
         /\ IF DOMAIN sfmdata.views = {}
            THEN UNCHANGED << sfmdata, oldIdToNew, err >>
            ELSE LET r == regenerateViewUIDs(sfmdata.views, oldIdToNew)
                 IN  IF r.failed /\ ~ndebug
                     THEN /\ err' = "AssertionFailed"
                          /\ UNCHANGED << sfmdata, oldIdToNew >>
                     ELSE /\ sfmdata' = [sfmdata EXCEPT !.views = r.newViews]
                          /\ oldIdToNew' = r.map
                          /\ err' = IF /\ sanityCheck
                                       /\ ~ndebug
                                       /\ ~ /\ sanityCheckLandmarks(sfmdata.structure, r.newViews)
                                            /\ sanityCheckLandmarks(sfmdata.control_points, r.newViews)
                                    THEN "AssertionFailed"
                                    ELSE NoError
    /\ UNCHANGED << threads, meshVars, texParams, texVars >>


\* updateStructureWithNewUID (lines 13-31): the loop over the landmarks from the i-th
\* key on; at() throws for a view id that is not in the map, emplace keeps the first
\* observation of a new id, failed records a failed assert
RECURSIVE landmarkLoop(_, _, _)
landmarkLoop(st, map, i) ==
    IF i > Len(keysOf(st.landmarks)) \/ st.err # NoError THEN st
    ELSE LET lm == keysOf(st.landmarks)[i]
             observations == st.landmarks[lm]
             newObservations ==
                 [u \in { map[v] : v \in DOMAIN observations } |->
                     observations[CHOOSE v \in DOMAIN observations :
                                      /\ map[v] = u
                                      /\ \A w \in DOMAIN observations : map[w] = u => v <= w]]
         IN  IF \E v \in DOMAIN observations : v \notin DOMAIN map
             THEN [st EXCEPT !.err = "OutOfRange"]
             ELSE landmarkLoop(
                      [landmarks |-> [st.landmarks EXCEPT ![lm] = newObservations],
                       err |-> NoError,
                       failed |-> st.failed \/ Cardinality(DOMAIN newObservations)
                                                   # Cardinality(DOMAIN observations)],
                      map, i + 1)

\* updateStructureWithNewUID (lines 10-32) on the landmarks or the control points
updateStructureWithNewUID ==
    /\ err = NoError
    /\ pc = "idle"
    /\ op' = "updateStructureWithNewUID"
    /\ \E which \in { "structure", "control_points" }, ndebug \in BOOLEAN :
         LET r == landmarkLoop([landmarks |-> sfmdata[which], err |-> NoError, failed |-> FALSE],
                               oldIdToNew, 1)
         IN  /\ sfmdata' = [sfmdata EXCEPT ![which] = r.landmarks]
             /\ err' = IF r.err # NoError THEN r.err
                       ELSE IF r.failed /\ ~ndebug THEN "AssertionFailed"
                       ELSE NoError
    /\ UNCHANGED << oldIdToNew, threads, meshVars, texParams, texVars >>

\* the observations of a landmark seen from the views S
Obs(S) == [v \in S |-> v]

\* the sets of at most k view ids
ViewSets(k) == { S \in SUBSET ViewIds : Cardinality(S) <= k }

\* SfM data: at most two views with their images, two landmarks and a control point
InitUID ==
    /\ me = NullMesh
    /\ pointsVisibilities = NullVis
    /\ uvCoords = <<>>
    /\ trisUvIds = <<>>
    /\ atlases = <<>>
    /\ mua = <<>>
    /\ vertexCache = <<>>
    /\ err = NoError
    /\ op = "SfM_Data"
    /\ texParams = [padding |-> MaxPadding, fillHoles |-> FALSE, downscale |-> 1]
    /\ NoTexture
    /\ NoThreads
    /\ oldIdToNew = <<>>
    /\ \E K \in ViewSets(2) : \E image \in [K -> ViewIds] :
       \E S0 \in ViewSets(2) : \E S1 \in ViewSets(1) : \E S2 \in ViewSets(1) :
           sfmdata = [views |-> [k \in K |-> [id |-> k, image |-> image[k]]],
                      structure |-> [lm \in {0, 1} |-> IF lm = 0 THEN Obs(S0) ELSE Obs(S1)],
                      control_points |-> [lm \in {0} |-> Obs(S2)]]

NextUID == regenerateUID \/ updateStructureWithNewUID

SpecUID == InitUID /\ [][NextUID]_vars

\* every observation of the SfM data d references a view of d
observesViews(d) ==
    \A which \in { "structure", "control_points" } :
        \A lm \in DOMAIN d[which] : DOMAIN d[which][lm] \subseteq DOMAIN d.views

\* C16: regenerateUID with the sanity check, on views that are not empty and
\* observations that all reference a view, ends without failed assert, and then every
\* observation of the landmarks and of the control points references a key of the
\* new views whose view has that id
C16_SanityCheckHolds ==
    [][(/\ op' = "regenerateUID(sanityCheck)"
        /\ DOMAIN sfmdata.views # {}
        /\ observesViews(sfmdata)) =>
           /\ err' = NoError
           /\ sanityCheckLandmarks(sfmdata'.structure, sfmdata'.views)
           /\ sanityCheckLandmarks(sfmdata'.control_points, sfmdata'.views)
    ]_vars

====
